---- MODULE Spec2Model ----
(***************************************************************************)
(* Dual-mode monitor scheduling of uptime-kuma: the QueueIntegration       *)
(* facade (server/queue/queue-integration.js), the BullMQ-backed           *)
(* QueueManager (server/queue/queue-manager.js) and the per-monitor timer  *)
(* loop of the Monitor model that the facade drives in traditional mode.   *)
(***************************************************************************)
EXTENDS Integers, FiniteSets, Sequences, Bags, TLC

\* ------------------------------------------------------------------ bounds
\* External calls (facade calls and configuration edits) in one behaviour.
MaxCalls == 3
\* Job records (queued, active or orphaned) the broker model holds at once.
MaxJobs == 2
\* Monitor instances with a live timer that server.monitorList does not hold.
MaxLoose == 1
\* Characters of a QUEUE_CONCURRENCY setting.
MaxEnvLen == 2
\* Job starts the limiter window counts; further starts leave the count there.
MaxStarted == 2

\* ------------------------------------------------------- program constants
\* defaultJobOptions.attempts
Attempts == 3
\* defaultJobOptions.backoff.delay (ms)
BackoffDelay == 2000
\* Worker concurrency when QUEUE_CONCURRENCY is unset
DefaultConcurrency == 50
\* Upper bound (exclusive) of the start-up jitter, Math.random() * 10000
JitterWindow == 10000
\* scheduleNextCheck's fallback interval (seconds), monitor.interval || 60
DefaultInterval == 60
\* Worker limiter: max jobs per window
LimiterMax == 1000

\* The monitor rows of the configuration store.
Monitors == {1, 2}

\* monitor.interval of each row (seconds); 0 stands for an unset interval.
MonitorInterval == [m \in Monitors |-> IF m = 1 THEN 20 ELSE 0]

\* Values Math.random() * 10000 is sampled at.
JitterSamples == {0, 9999}

\* monitor.type of each row: both are checked by RealBrowserMonitorType
MonitorType == [m \in Monitors |-> "real-browser"]

\* ---------------------------------------------------- the browser's settings
\* Browser checks that run at once (the worker runs up to `concurrency` jobs).
MaxChecks == 2
\* Browsing contexts left open, and browser processes alive, beyond which no
\* further check is begun.
MaxContexts == 2
MaxProcs == 2

\* allowedList on linux
AllowedList ==
    {"chromium", "chromium-browser", "google-chrome", "/usr/bin/chromium",
     "/usr/bin/chromium-browser", "/usr/bin/google-chrome", "/snap/bin/chromium"}

\* Values of the chromeExecutable setting: unset, the special code in two
\* spellings, a path of the allow-list, a path outside it.
ExeSamples ==
    {"", "#playwright_chromium", "#PLAYWRIGHT_CHROMIUM", "/usr/bin/chromium", "/opt/chrome/chrome"}

\* String.prototype.toLocaleLowerCase on these values
toLocaleLowerCase(s) == IF s = "#PLAYWRIGHT_CHROMIUM" THEN "#playwright_chromium" ELSE s

\* Values of process.env.UPTIME_KUMA_ALLOW_ALL_CHROME_EXEC
AllowEnvSamples == {"", "1", "true"}

\* The settings a server runs with: the chromeExecutable setting, the
\* allow-all-chrome-exec argument, the environment variable.
Confs == [exe : ExeSamples, allowArg : BOOLEAN, allowEnv : AllowEnvSamples]
DefaultConf == [exe |-> "", allowArg |-> FALSE, allowEnv |-> ""]

\* What findChrome(allowedList) finds installed: nothing, or an executable.
FoundSamples == {"", "chromium"}

\* executablePath: undefined, with which playwright launches its own chromium
Bundled == "undefined"

\* An allow-list test that lets every path through.
isAllowedChromeExecutable_Any(cf, executablePath) == TRUE

\* isAllowedChromeExecutable(executablePath)
isAllowedChromeExecutable(cf, executablePath) ==
    IF cf.allowArg \/ cf.allowEnv = "1" THEN TRUE ELSE executablePath \in AllowedList

NotAllowed == "This Chromium executable path is not allowed by default."
NotFound == "Chromium not found, please specify Chromium executable path in the settings page."

\* prepareChromeExecutable(executablePath) outside a container: the path to
\* launch with, or the error thrown.
prepareChromeExecutable(cf, executablePath, found) ==
    IF toLocaleLowerCase(executablePath) = "#playwright_chromium"
    THEN [raised |-> FALSE, path |-> Bundled, msg |-> ""]
    ELSE IF executablePath = ""
    THEN (IF found = ""
          THEN [raised |-> TRUE, path |-> "", msg |-> NotFound]
          ELSE [raised |-> FALSE, path |-> found, msg |-> ""])
    ELSE IF ~isAllowedChromeExecutable(cf, executablePath)
    THEN [raised |-> TRUE, path |-> "", msg |-> NotAllowed]
    ELSE [raised |-> FALSE, path |-> executablePath, msg |-> ""]

\* ------------------------------------------------------ the browser check
\* monitor.url of a row, as a check reads it: an https target, a local file.
UrlSamples == {"https://status.test/health", "file:///etc/passwd"}

\* new URL(monitor.url).protocol on these values
Protocol(url) == IF url = "file:///etc/passwd" THEN "file:" ELSE "https:"

\* the test on the protocol: only http and https pass
HttpScheme(url) == Protocol(url) \in {"http:", "https:"}

InvalidProtocol == "Invalid url protocol, only http and https are allowed."

\* The URL check() passes to page.goto, and the options it passes.
testUrl == "https://example.com"
GotoTimeout == 30000
GotoOptions == [waitUntil |-> "networkidle", timeout |-> GotoTimeout]
NoGoto == [url |-> "", waitUntil |-> "", timeout |-> 0]

\* What page.goto ends with: a response of this status, or 0 for a throw
\* (a timeout, a network error).
GotoOutcomes == {0, 200, 399, 400}
GotoThrew == "page.goto: Timeout 30000ms exceeded."
ScreenshotThrew == "page.screenshot: failed to write the file"
ConnectThrew == "browserType.connect: failed"

\* monitor.testCommands of each row
TestCommands == [m \in Monitors |-> IF m = 2 THEN <<"click", "type">> ELSE <<>>]

\* The commands check() plays back: executeTestCommands is called nowhere.
CommandsPlayed(m) == <<>>

\* jwt.sign(monitor.id, server.jwtSecret): the token holds its payload
Filename(m) == <<"jwt", m>>
screenshotPath(m) == <<"screenshots", Filename(m), ".png">>
videoPath(m) == <<"videos", Filename(m), ".webm">>

\* The result of check(): heartbeat.status, heartbeat.msg, heartbeat.ping
\* when it returns, the error when it throws.  A status code is kept as the
\* number it is; `text` is its string, or the message of another error.
UpResult(status) == [up |-> TRUE, code |-> status, text |-> "", ping |-> "responseEnd"]
StatusText(status) == <<"string", status>>
Failure(text) == [up |-> FALSE, code |-> 0, text |-> text, ping |-> ""]
NoResult == [up |-> FALSE, code |-> 0, text |-> "", ping |-> ""]

\* if (res.status() >= 200 && res.status() < 400) ... else throw
DeriveResult(status) ==
    IF status >= 200 /\ status < 400 THEN UpResult(status) ELSE Failure(StatusText(status))

\* One running check(): where it is, its monitor, whether the row has a
\* remote_browser (as line 246 reads it), the browser it holds, the
\* path it launches with, whether its context is open, the url it read, what
\* it navigated to, the response status, the test commands it has played,
\* the artifacts, the result.
NoCheck ==
    [pc |-> "idle", mon |-> 0, remote |-> FALSE, handle |-> "none", path |-> "", ctx |-> FALSE, url |-> "",
     nav |-> NoGoto, status |-> 0, played |-> <<>>, shot |-> "none", video |-> "none",
     res |-> NoResult]

\* The shared browser before any launch: whether the cached one is connected
\* and is a remote one, the local browser processes alive, the contexts open,
\* the artifact files written, the path of the latest chromium.launch.
NoChrome ==
    [connected |-> FALSE, remote |-> FALSE, procs |-> 0, contexts |-> 0,
     artifacts |-> {}, launched |-> ""]

\* ------------------------------------------------- the process environment
\* Characters an environment setting is made of here: digits, a sign, a letter.
Digits == {"0", "1"}
Chars == Digits \cup {"-", "x"}

\* The settings tried: unset (the empty string parses alike) or a short string.
EnvStrings == UNION {[1..n -> Chars] : n \in 0..MaxEnvLen}

DigitValue(c) == IF c = "1" THEN 1 ELSE 0

\* The longest prefix of s made of digits.
RECURSIVE DigitPrefix(_)
DigitPrefix(s) ==
    IF s = <<>> \/ Head(s) \notin Digits THEN <<>>
    ELSE <<Head(s)>> \o DigitPrefix(Tail(s))

\* The decimal value of a string of digits.
RECURSIVE Decimal(_)
Decimal(d) ==
    IF d = <<>> THEN 0
    ELSE 10 * Decimal(SubSeq(d, 1, Len(d) - 1)) + DigitValue(d[Len(d)])

\* parseInt(s, 10): an optional sign, then the digits up to the first other
\* character; NaN when there is no digit there.
parseInt(s) ==
    LET neg == s # <<>> /\ Head(s) = "-"
        body == IF neg THEN Tail(s) ELSE s
        d == DigitPrefix(body)
    IN IF d = <<>> THEN [nan |-> TRUE, val |-> 0]
       ELSE [nan |-> FALSE, val |-> IF neg THEN 0 - Decimal(d) ELSE Decimal(d)]

\* `x || fallback` on a number: NaN and 0 are falsy.
OrElse(x, fallback) == IF x.nan \/ x.val = 0 THEN fallback ELSE x.val

\* concurrency: parseInt(process.env.QUEUE_CONCURRENCY, 10) || 50
WorkerConcurrency(e) == OrElse(parseInt(e.QUEUE_CONCURRENCY), DefaultConcurrency)

\* new Worker(...): BullMQ (v5, as the constructor's note says) throws on a
\* concurrency that is not a finite number of at least 1.
WorkerAccepts(e) == WorkerConcurrency(e) >= 1

\* limiter.max: the literal 1000
WorkerLimiterMax(e) == LimiterMax

\* The environment with neither setting given.
NoEnv == [QUEUE_CONCURRENCY |-> <<>>, QUEUE_MAX_JOBS |-> <<>>]

\* The Worker and Queue objects of a QueueManager: before construction,
\* and as the constructor builds them from the environment.
NoWorker == [phase |-> "none", concurrency |-> 0, max |-> 0]
NewWorker(e) ==
    [phase |-> "running", concurrency |-> WorkerConcurrency(e), max |-> WorkerLimiterMax(e)]

VARIABLES
    active,        \* configuration store: monitor.active of each row
    isQueueMode,   \* QueueIntegration.isQueueMode
    isInitialized, \* QueueIntegration.isInitialized
    queueManager,  \* QueueIntegration.queueManager is set (not null)
    ctorCalls,     \* number of `new QueueManager()` evaluated so far
    ctorFailed,    \* a `new QueueManager()` has thrown
    jobs,          \* the monitor-checks queue and the running processors: a bag of job records
    sa,            \* the startAllMonitors call in progress
    monitorList,   \* server.monitorList: state of the instance registered per monitor
    loose,         \* started monitor instances that server.monitorList does not hold
    watch,         \* per monitor: "live" once started while active, "stopped" after stopMonitor,
                   \* "off" before any start and after a deactivation
    env,           \* process.env: QUEUE_CONCURRENCY and QUEUE_MAX_JOBS
    worker,        \* the QueueManager's Worker and Queue: options, and running/closing/closed
    browser,       \* the module's `browser` variable is set (a shared browser was obtained)
    conf,          \* the settings of the browser executable
    chrome,        \* the browser processes, contexts and artifact files
    checks,        \* the running RealBrowserMonitorType.check() calls
    started,       \* jobs the worker has started in the current limiter window
    calls,         \* external calls made so far
    last           \* the step just taken

vars == <<active, isQueueMode, isInitialized, queueManager, ctorCalls, ctorFailed,
          jobs, sa, monitorList, loose, watch, env, worker, browser, conf, chrome, checks,
          started, calls, last>>

\* The record of a step: the operation, its monitor (0: none), whether the call
\* raised, the monitors it worked on, a flag and a result of the operation.
Last(op, m, raised, set, flag, res) ==
    [op |-> op, mon |-> m, raised |-> raised, set |-> set, flag |-> flag, res |-> res]

\* A step of a worker, a timer or the clock that no operation's outcome rests on.
Quiet == Last("step", 0, FALSE, {}, FALSE, "")

\* --------------------------------------------------------------- the queue

\* A job of the queue.  named: it carries a jobId monitor-<id>-<Date.now()>;
\* fresh: that timestamp is the current millisecond; st: BullMQ state, or
\* "orphan" for a processor still running a job that obliterate deleted;
\* delay: the delay it waits for (ms), 0 once that has passed; att: attemptsMade;
\* began: the worker took it in the current millisecond; ran: executeMonitorBeat
\* has returned in an earlier attempt of it.
Job(m, named, fresh, st, delay, att) ==
    [mon |-> m, named |-> named, fresh |-> fresh, st |-> st, delay |-> delay, att |-> att,
     began |-> FALSE, ran |-> FALSE]

One(r) == SetToBag({r})

JobSet == BagToSet(jobs)

\* Copies in bag q of the records of set S, summed.
RECURSIVE SumCopies(_, _)
SumCopies(q, S) ==
    IF S = {} THEN 0
    ELSE LET r == CHOOSE x \in S : TRUE
         IN CopiesIn(r, q) + SumCopies(q, S \ {r})

\* Bag q restricted to the records of set S (the others are removed).
Keep(q, S) == [r \in S |-> CopiesIn(r, q)]

IsOutstanding(r) == r.st \in {"waiting", "delayed", "active"}
IsPending(r) == r.st \in {"waiting", "delayed"}
IsProcessing(r) == r.st \in {"active", "orphan"}

\* BullMQ queue.add: a job whose delay is 0 goes to the wait list, another
\* to the delayed set; an add with a jobId the queue already holds is ignored.
QueueState(delay) == IF delay = 0 THEN "waiting" ELSE "delayed"

SameJobId(q, m) ==
    \E r \in BagToSet(q) : r.mon = m /\ r.named /\ r.fresh /\ r.st # "orphan"

\* monitorQueue.add(name, data, {delay, jobId: `monitor-${id}-${Date.now()}`})
AddNamed(q, m, delay) ==
    IF SameJobId(q, m) THEN q
    ELSE q (+) One(Job(m, TRUE, TRUE, QueueState(delay), delay, 0))

\* An add that replaces the jobs of the monitor that wait in the queue.
AddAuto_Replacing(q, m, delay) ==
    [r \in {x \in BagToSet(q) : ~(x.mon = m /\ x.st \in {"waiting", "delayed"})} |-> CopiesIn(r, q)]
        (+) SetToBag({[mon |-> m, named |-> FALSE, fresh |-> FALSE,
                       st |-> IF delay = 0 THEN "waiting" ELSE "delayed",
                       delay |-> delay, att |-> 0, began |-> FALSE, ran |-> FALSE]})

\* monitorQueue.add(name, data, {delay}) : BullMQ generates a new job id
AddAuto(q, m, delay) == q (+) One(Job(m, FALSE, FALSE, QueueState(delay), delay, 0))

NextDelay(m) ==
    (IF MonitorInterval[m] = 0 THEN DefaultInterval ELSE MonitorInterval[m]) * 1000

scheduleNextCheck(q, m) == AddNamed(q, m, NextDelay(m))


\* BullMQ's handling of a processor that threw: the job is queued again with
\* exponential backoff while attemptsMade < attempts, and is failed after
\* that; the job of an orphaned processor no longer exists.
Backoff(att) == BackoffDelay * (2 ^ (att - 1))

\* A queue that retries whatever attemptsMade is.
RetryOrFail_Always(q, r) ==
    IF r.st = "orphan"
    THEN q (-) One(r)
    ELSE (q (-) One(r)) (+) One([r EXCEPT !.st = "delayed",
                                          !.delay = Backoff(r.att + 1),
                                          !.att = r.att + 1,
                                          !.began = FALSE])

RetryOrFail(q, r) ==
    IF r.st = "orphan" \/ r.att + 1 >= Attempts
    THEN q (-) One(r)
    ELSE (q (-) One(r)) (+) One([r EXCEPT !.st = "delayed",
                                          !.delay = Backoff(r.att + 1),
                                          !.att = r.att + 1,
                                          !.began = FALSE])

Exhausted(r) == r.st # "orphan" /\ r.att + 1 >= Attempts


\* A stopMonitor that reads the jobs of every state, active ones included.
QM_stopMonitor_AllStates(q, m) == Keep(q, {r \in BagToSet(q) : ~(r.st # "orphan" /\ r.mon = m)})

\* QueueManager.stopMonitor: every waiting or delayed job of the monitor is removed.
QM_stopMonitor(q, m) == Keep(q, {r \in BagToSet(q) : ~(IsPending(r) /\ r.mon = m)})

\* monitorQueue.obliterate({force: true}): every job is deleted; a processor
\* that is running one keeps running.
Obliterate(q) ==
    LET run == {r \in BagToSet(q) : IsProcessing(r)}
        orphaned(x) == [x EXCEPT !.st = "orphan"]
        img == {orphaned(r) : r \in run}
    IN [o \in img |-> SumCopies(q, {r \in run : orphaned(r) = o})]

\* monitorQueue.addBulk(jobs): one named job per monitor of the list, each
\* with its own jitter.
RECURSIVE AddBulk(_, _, _)
AddBulk(q, list, jit) ==
    IF list = {} THEN q
    ELSE LET m == CHOOSE x \in list : \A y \in list : x <= y
         IN AddBulk(AddNamed(q, m, jit[m]), list \ {m}, jit)

\* The clock moves to the next millisecond: no jobId carries the current
\* timestamp any more, and no check has begun in it.
Stale(q) ==
    LET old(x) == [x EXCEPT !.fresh = FALSE, !.began = FALSE]
        S == BagToSet(q)
        img == {old(r) : r \in S}
    IN [o \in img |-> SumCopies(q, {r \in S : old(r) = o})]


\* ------------------------------------------------------------ the facade

ActiveSet == {m \in Monitors : active[m]}

\* `this.isQueueMode && this.queueManager`
UseQueue == isQueueMode /\ queueManager

\* initialize() guarded by `!this.isInitialized` alone.
InitializeNeeded_AnyMode == ~isInitialized

\* initialize()'s condition for constructing the QueueManager
InitializeNeeded == isQueueMode /\ ~isInitialized

\* A catch block that forgets `this.isQueueMode = false`.
ModeAfterCatch_Kept == TRUE

\* isQueueMode after initialize()'s catch block
ModeAfterCatch == FALSE

\* QueueIntegration.initialize(); ok: `new QueueManager()` returns
initialize(ok) ==
    IF InitializeNeeded
    THEN /\ ctorCalls' = ctorCalls + 1
         /\ IF ok /\ WorkerAccepts(env)
            THEN /\ queueManager' = TRUE
                 /\ isInitialized' = TRUE
                 /\ worker' = NewWorker(env)
                 /\ UNCHANGED <<isQueueMode, ctorFailed, env>>
            ELSE /\ isQueueMode' = ModeAfterCatch
                 /\ ctorFailed' = TRUE
                 /\ UNCHANGED <<queueManager, isInitialized, env, worker>>
    ELSE UNCHANGED <<isQueueMode, isInitialized, queueManager, ctorCalls, ctorFailed,
                     env, worker>>

\* getStats().mode
StatsMode == IF UseQueue THEN "queue" ELSE "traditional"

Idle == [pc |-> "idle", list |-> {}, found |-> {}, mixed |-> FALSE]

Mixed == IF sa.pc = "idle" THEN sa ELSE [sa EXCEPT !.mixed = TRUE]

LooseSize == BagCardinality(loose)

Inst(m, st) == [mon |-> m, st |-> st]

\* The instances server.monitorList loses when the rows of S are registered
\* anew: those with a timer or a running check live on unreferenced.
RECURSIVE Displaced(_)
Displaced(S) ==
    IF S = {} THEN EmptyBag
    ELSE LET m == CHOOSE x \in S : TRUE
         IN (IF monitorList[m] \in {"scheduled", "running"}
             THEN One(Inst(m, monitorList[m])) ELSE EmptyBag) (+) Displaced(S \ {m})


Facade == <<isQueueMode, isInitialized, queueManager, ctorCalls, ctorFailed, env, worker>>
Local == <<monitorList, loose>>
Browsing == <<conf, chrome, checks>>
Runtime == <<browser, started, Browsing>>

\* The process serves calls: shutdown() has not closed the QueueManager.
Serving == worker.phase \in {"none", "running"}

\* getBrowser(): the shared browser is launched unless it is running
getBrowser(m) == browser \/ MonitorType[m] = "real-browser"

Watched(S) ==
    [m \in Monitors |-> IF m \in S THEN (IF active[m] THEN "live" ELSE "off") ELSE watch[m]]
Unwatched(m, how) == [watch EXCEPT ![m] = how]

Init ==
    /\ active = [m \in Monitors |-> TRUE]
    /\ isQueueMode \in BOOLEAN          \* process.env.ENABLE_QUEUE_MODE === "true"
    /\ isInitialized = FALSE
    /\ queueManager = FALSE
    /\ ctorCalls = 0
    /\ ctorFailed = FALSE
    /\ jobs = EmptyBag
    /\ sa = Idle
    /\ monitorList = [m \in Monitors |-> "none"]
    /\ loose = EmptyBag
    /\ watch = [m \in Monitors |-> "off"]
    /\ env = NoEnv
    /\ worker = NoWorker
    /\ browser = FALSE
    /\ conf = DefaultConf
    /\ chrome = NoChrome
    /\ checks = [c \in 1..MaxChecks |-> NoCheck]
    /\ started = 0
    /\ calls = 0
    /\ last = Last("init", 0, FALSE, {}, FALSE, "")

\* ---- QueueIntegration.initialize(), called on its own
Initialize(ok) ==
    /\ Serving
    /\ calls < MaxCalls
    /\ calls' = calls + 1
    /\ initialize(ok)
    /\ last' = Last("initialize", 0, FALSE, {}, InitializeNeeded /\ ~queueManager',
                    IF isQueueMode' /\ queueManager' THEN "queue" ELSE "traditional")
    /\ UNCHANGED <<active, jobs, sa, Local, watch, Runtime>>

\* ---- QueueIntegration.startAllMonitors(), up to its first suspension: initialize(),
\* then either QueueManager.startAllMonitors' R.find, or startMonitorsTraditional's
\* R.find and its registration loop.
StartAllMonitors(ok) ==
    /\ Serving
    /\ sa.pc = "idle"
    /\ calls < MaxCalls
    /\ calls' = calls + 1
    /\ initialize(ok)
    /\ IF isQueueMode' /\ queueManager'
       THEN /\ sa' = [pc |-> "oblit", list |-> ActiveSet, found |-> ActiveSet, mixed |-> FALSE]
            /\ last' = Last("startAll", 0, FALSE, ActiveSet, FALSE, "queue")
            /\ UNCHANGED Local
       ELSE /\ BagCardinality(loose (+) Displaced(ActiveSet)) <= MaxLoose
            /\ loose' = loose (+) Displaced(ActiveSet)
            /\ monitorList' = [m \in Monitors |->
                                 IF m \in ActiveSet THEN "idle" ELSE monitorList[m]]
            /\ sa' = IF ActiveSet = {} THEN Idle
                     ELSE [pc |-> "trad", list |-> ActiveSet, found |-> ActiveSet,
                           mixed |-> FALSE]
            /\ last' = Last(IF ActiveSet = {} THEN "startAllDone" ELSE "startAll",
                            0, FALSE, ActiveSet, FALSE, "traditional")
    /\ UNCHANGED <<active, jobs, watch, Runtime>>

\* ---- startMonitorsTraditional: one round of `await monitor.start(io)`, on
\* the next row of the list.  The instance started is the one registered at
\* the beginning of the call, whether server.monitorList still holds it or not.
StartNextTraditional ==
    /\ sa.pc = "trad"
    /\ LET m == CHOOSE x \in sa.list : \A y \in sa.list : x <= y
           rest == sa.list \ {m}
       IN /\ IF monitorList[m] = "idle"
             THEN /\ monitorList' = [monitorList EXCEPT ![m] = "scheduled"]
                  /\ UNCHANGED loose
             ELSE /\ LooseSize < MaxLoose
                  /\ loose' = loose (+) One(Inst(m, "scheduled"))
                  /\ UNCHANGED monitorList
          /\ watch' = Watched({m})
          /\ sa' = IF rest = {} THEN Idle ELSE [sa EXCEPT !.list = rest]
          /\ last' = IF rest = {}
                     THEN Last("startAllDone", 0, FALSE, sa.found, sa.mixed, "traditional")
                     ELSE Quiet
    /\ UNCHANGED <<active, Facade, jobs, calls, Runtime>>

\* ---- QueueManager.startAllMonitors: `await this.monitorQueue.obliterate({force: true})`
ObliterateQueue ==
    /\ sa.pc = "oblit"
    /\ jobs' = Obliterate(jobs)
    /\ sa' = [sa EXCEPT !.pc = "add"]
    /\ last' = Quiet
    /\ UNCHANGED <<active, Facade, Local, watch, calls, Runtime>>

\* ---- QueueManager.startAllMonitors: the job list is built and
\* `await this.monitorQueue.addBulk(jobs)` adds it
AddBulkJobs ==
    /\ sa.pc = "add"
    /\ \E jit \in [sa.list -> JitterSamples] :
          /\ jobs' = AddBulk(jobs, sa.list, jit)
          /\ BagCardinality(jobs') <= MaxJobs
    /\ watch' = Watched(sa.list)
    /\ sa' = Idle
    /\ last' = Last("startAllDone", 0, FALSE, sa.found, sa.mixed, "queue")
    /\ UNCHANGED <<active, Facade, Local, calls, Runtime>>

\* ---- QueueManager.startAllMonitors: a broker call rejects; the catch block
\* logs and rethrows, and the facade's call raises
StartAllRaises ==
    /\ sa.pc \in {"oblit", "add"}
    /\ sa' = Idle
    /\ last' = Last("startAllDone", 0, TRUE, sa.found, sa.mixed, "queue")
    /\ UNCHANGED <<active, Facade, jobs, Local, watch, calls, Runtime>>

\* ---- QueueIntegration.startMonitor(monitorId, io)
StartMonitor(m) ==
    /\ Serving
    /\ calls < MaxCalls
    /\ calls' = calls + 1
    /\ IF UseQueue
       THEN /\ BagCardinality(jobs) < MaxJobs
            /\ jobs' = AddAuto(jobs, m, 0)
            /\ UNCHANGED Local
       ELSE /\ LooseSize < MaxLoose
            /\ loose' = loose (+) One(Inst(m, "scheduled"))
            /\ UNCHANGED <<jobs, monitorList>>
    /\ watch' = Watched({m})
    /\ sa' = Mixed
    /\ last' = Last("startMonitor", m, FALSE, {}, FALSE, StatsMode)
    /\ UNCHANGED <<active, Facade, Runtime>>

\* ---- QueueIntegration.stopMonitor(monitorId)
StopMonitor(m) ==
    /\ Serving
    /\ calls < MaxCalls
    /\ calls' = calls + 1
    /\ IF UseQueue
       THEN /\ jobs' = QM_stopMonitor(jobs, m)
            /\ UNCHANGED Local
       ELSE /\ IF monitorList[m] = "running"
               THEN /\ LooseSize < MaxLoose
                    /\ loose' = loose (+) One(Inst(m, "stopping"))
               ELSE UNCHANGED loose
            /\ monitorList' = [monitorList EXCEPT ![m] = "none"]
            /\ UNCHANGED jobs
    /\ watch' = Unwatched(m, "stopped")
    /\ sa' = Mixed
    /\ last' = Last("stopMonitor", m, FALSE, {},
                    IF UseQueue THEN \E r \in JobSet : IsPending(r) /\ r.mon = m
                    ELSE monitorList[m] # "none",
                    StatsMode)
    /\ UNCHANGED <<active, Facade, Runtime>>

\* ---- QueueIntegration.getStats(); ok: the broker answers
GetStats(ok) ==
    /\ Serving
    /\ calls < MaxCalls
    /\ calls' = calls + 1
    /\ last' = Last("getStats", 0, UseQueue /\ ~ok, {}, FALSE, StatsMode)
    /\ UNCHANGED <<active, Facade, jobs, sa, Local, watch, Runtime>>

\* healthCheck().status
HealthStatus(ok) ==
    IF ~isQueueMode THEN "disabled"
    ELSE IF UseQueue /\ ~ok THEN "unhealthy" ELSE "healthy"

\* ---- QueueIntegration.healthCheck(); ok: the broker answers
HealthCheck(ok) ==
    /\ Serving
    /\ calls < MaxCalls
    /\ calls' = calls + 1
    /\ last' = Last("healthCheck", 0, FALSE, {}, ~ok, HealthStatus(ok))
    /\ UNCHANGED <<active, Facade, jobs, sa, Local, watch, Runtime>>

\* ---- QueueIntegration.shutdown(), up to QueueManager.close()'s
\* `await this.worker.close()`: the worker takes no further job
Shutdown ==
    /\ Serving
    /\ sa.pc = "idle"
    /\ calls < MaxCalls
    /\ calls' = calls + 1
    /\ IF queueManager
       THEN /\ worker' = [worker EXCEPT !.phase = "closing"]
            /\ last' = Last("shutdown", 0, FALSE, {}, FALSE, "queue")
       ELSE /\ UNCHANGED worker
            /\ last' = Last("shutdownDone", 0, FALSE, {}, FALSE, "traditional")
    /\ UNCHANGED <<active, isQueueMode, isInitialized, queueManager, ctorCalls, ctorFailed,
                   env, jobs, sa, Local, watch, Runtime>>

\* ---- QueueManager.close(): worker.close() resolves once no processor is
\* running, monitorQueue.close() closes the queue, and shutdown() returns
ShutdownEnds ==
    /\ worker.phase = "closing"
    /\ \A r \in JobSet : ~IsProcessing(r)
    /\ worker' = [worker EXCEPT !.phase = "closed"]
    /\ last' = Last("shutdownDone", 0, FALSE, {}, FALSE, "queue")
    /\ UNCHANGED <<active, isQueueMode, isInitialized, queueManager, ctorCalls, ctorFailed,
                   env, jobs, sa, Local, watch, Runtime, calls>>

\* ---- the configuration store: a monitor row is activated or deactivated
SetActive(m) ==
    /\ Serving
    /\ calls < MaxCalls
    /\ calls' = calls + 1
    /\ active' = [active EXCEPT ![m] = ~active[m]]
    /\ watch' = IF active[m] THEN Unwatched(m, "off") ELSE watch
    /\ last' = Last("setActive", m, FALSE, {}, FALSE, "")
    /\ UNCHANGED <<Facade, jobs, sa, Local, Runtime>>


\* --------------------------------------------------------------- the worker

Processing == SumCopies(jobs, {r \in BagToSet(jobs) : IsProcessing(r)})

\* ---- BullMQ: the delay of a delayed job has passed; it moves to the wait
\* list and its delay is reset
Promote(r) ==
    /\ r.st = "delayed"
    /\ jobs' = (jobs (-) One(r)) (+) One([r EXCEPT !.st = "waiting", !.delay = 0])
    /\ last' = Quiet
    /\ UNCHANGED <<active, Facade, sa, Local, watch, calls, Runtime>>

\* The limiter's count after one more job start.  The count is followed up to
\* MaxStarted, and only when QUEUE_MAX_JOBS is given: without it the limit is
\* the 1000 of the code, which no run here comes near.
Counted(n) ==
    IF env.QUEUE_MAX_JOBS # <<>> /\ n < MaxStarted THEN n + 1 ELSE n

\* A lookup of the row by id alone.
MonitorFound_AnyRow(m) == m \in Monitors

\* R.findOne("monitor", "id = ? AND active = 1", [ monitorId ]) finds a row
MonitorFound(m) == active[m]

\* ---- processMonitorJob, up to executeMonitorBeat: the worker takes a waiting
\* job and reads the monitor row; a row that is absent or inactive ends the
\* job as skipped.
Dequeue(r) ==
    /\ r.st = "waiting"
    /\ worker.phase = "running"
    /\ Processing < worker.concurrency
    /\ started < worker.max
    /\ started' = Counted(started)
    /\ IF MonitorFound(r.mon)
       THEN /\ jobs' = (jobs (-) One(r)) (+) One([r EXCEPT !.st = "active", !.began = TRUE])
            /\ browser' = getBrowser(r.mon)
            /\ last' = Quiet
       ELSE /\ jobs' = jobs (-) One(r)
            /\ last' = Last("skipped", r.mon, FALSE, {}, FALSE, "monitor_not_found")
            /\ UNCHANGED browser
    /\ UNCHANGED <<active, Facade, sa, Local, watch, calls, Browsing>>

\* ---- processMonitorJob: executeMonitorBeat returns, scheduleNextCheck adds
\* the next job and the job completes.  The check has taken time: it is no
\* longer the millisecond in which the worker took the job.
CheckCompleted(r) ==
    /\ IsProcessing(r)
    /\ ~r.began
    /\ jobs' = scheduleNextCheck(jobs (-) One(r), r.mon)
    /\ last' = Last("completed", r.mon, FALSE, {}, r.ran, "queue")
    /\ UNCHANGED <<active, Facade, sa, Local, watch, calls, Runtime>>

\* ---- processMonitorJob: executeMonitorBeat throws; the catch block logs and
\* rethrows, and BullMQ retries or fails the job
CheckThrows(r) ==
    /\ IsProcessing(r)
    /\ jobs' = RetryOrFail(jobs, r)
    /\ last' = Last(IF Exhausted(r) THEN "exhausted" ELSE "failed",
                    r.mon, TRUE, {}, FALSE, "beat")
    /\ UNCHANGED <<active, Facade, sa, Local, watch, calls, Runtime>>

\* ---- processMonitorJob: executeMonitorBeat returns and scheduleNextCheck's
\* queue.add rejects; the catch block logs and rethrows alike
ScheduleThrows(r) ==
    /\ IsProcessing(r)
    /\ ~r.began
    /\ LET done == [r EXCEPT !.ran = TRUE]
       IN  jobs' = RetryOrFail((jobs (-) One(r)) (+) One(done), done)
    /\ last' = Last(IF Exhausted(r) THEN "exhausted" ELSE "failed",
                    r.mon, TRUE, {}, r.ran, "add")
    /\ UNCHANGED <<active, Facade, sa, Local, watch, calls, Runtime>>

\* ---- the limiter's window (60 s) ends: its count starts again
WindowEnds ==
    /\ started > 0
    /\ started' = 0
    /\ last' = Quiet
    /\ UNCHANGED <<active, Facade, jobs, sa, Local, watch, browser, Browsing, calls>>

\* ---- a millisecond passes
Tick ==
    /\ \E r \in JobSet : r.fresh \/ r.began
    /\ jobs' = Stale(jobs)
    /\ last' = Quiet
    /\ UNCHANGED <<active, Facade, sa, Local, watch, calls, Runtime>>

\* ------------------------------------------------- the local timer loop

\* ---- the timer of the instance server.monitorList holds fires
TimerFires(m) ==
    /\ monitorList[m] = "scheduled"
    /\ monitorList' = [monitorList EXCEPT ![m] = "running"]
    /\ browser' = getBrowser(m)
    /\ last' = Quiet
    /\ UNCHANGED <<active, Facade, jobs, sa, loose, watch, calls, started, Browsing>>

\* ---- the check of that instance ends (up or down) and its next timer is set
BeatEnds(m) ==
    /\ monitorList[m] = "running"
    /\ monitorList' = [monitorList EXCEPT ![m] = "scheduled"]
    /\ last' = Quiet
    /\ UNCHANGED <<active, Facade, jobs, sa, loose, watch, calls, Runtime>>

\* ---- the timer of an instance server.monitorList does not hold fires
LooseTimerFires(i) ==
    /\ i.st = "scheduled"
    /\ loose' = (loose (-) One(i)) (+) One(Inst(i.mon, "running"))
    /\ browser' = getBrowser(i.mon)
    /\ last' = Quiet
    /\ UNCHANGED <<active, Facade, jobs, sa, monitorList, watch, calls, started, Browsing>>

\* ---- the check of such an instance ends; a stopped one sets no timer
LooseBeatEnds(i) ==
    /\ i.st \in {"running", "stopping"}
    /\ loose' = IF i.st = "running"
                THEN (loose (-) One(i)) (+) One(Inst(i.mon, "scheduled"))
                ELSE loose (-) One(i)
    /\ last' = Quiet
    /\ UNCHANGED <<active, Facade, jobs, sa, monitorList, watch, calls, Runtime>>

\* ------------------------------------------- RealBrowserMonitorType.check
Queue == <<active, Facade, jobs, sa, Local, watch, started, calls, last>>

Running == {c \in 1..MaxChecks : checks[c].pc \notin {"idle", "ended"}}

\* check() throws: the call ends with what it holds
Throws(c, text) == [checks EXCEPT ![c].pc = "ended", ![c].res = Failure(text)]

\* ---- check(monitor, heartbeat, server) is called for a monitor row
CheckBegins(c, m) ==
    /\ checks[c].pc = "idle"
    /\ chrome.contexts < MaxContexts
    /\ chrome.procs < MaxProcs
    /\ checks' = [checks EXCEPT ![c] = [NoCheck EXCEPT !.pc = "get", !.mon = m]]
    /\ UNCHANGED <<Queue, browser, conf, chrome>>

\* ---- getBrowser(), up to its first await, for a monitor without
\* remote_browser: the cached browser if it is connected; else the setting is
\* read and prepared, which throws or leaves the path to launch with
GetBrowser(c, found) ==
    /\ checks[c].pc = "get"
    /\ IF browser /\ chrome.connected
       THEN checks' = [checks EXCEPT ![c].pc = "url",
                                     ![c].handle = IF chrome.remote THEN "remote" ELSE "local"]
       ELSE LET p == prepareChromeExecutable(conf, conf.exe, found)
            IN  checks' = IF p.raised
                          THEN Throws(c, p.msg)
                          ELSE [checks EXCEPT ![c].pc = "launch", ![c].path = p.path]
    /\ UNCHANGED <<Queue, browser, conf, chrome>>

\* ---- getBrowser(): chromium.launch resolves and `browser` is assigned
LaunchReturns(c) ==
    /\ checks[c].pc = "launch"
    /\ browser' = TRUE
    /\ chrome' = [chrome EXCEPT !.connected = TRUE, !.remote = FALSE,
                                !.procs = @ + 1, !.launched = checks[c].path]
    /\ checks' = [checks EXCEPT ![c].pc = "url", ![c].handle = "local"]
    /\ UNCHANGED <<Queue, conf>>

\* ---- getRemoteBrowser() for a monitor with remote_browser:
\* chromium.connect resolves and `browser` is assigned, or it rejects
GetRemoteBrowser(c, ok) ==
    /\ checks[c].pc = "get"
    /\ IF ok
       THEN /\ browser' = TRUE
            /\ chrome' = [chrome EXCEPT !.connected = TRUE, !.remote = TRUE]
            /\ checks' = [checks EXCEPT ![c].pc = "url", ![c].remote = TRUE,
                                        ![c].handle = "remote"]
       ELSE /\ checks' = [Throws(c, ConnectThrew) EXCEPT ![c].remote = TRUE]
            /\ UNCHANGED <<browser, chrome>>
    /\ UNCHANGED <<Queue, conf>>

\* ---- the protocol of monitor.url is tested; then the file names are made
\* and browser.newContext and context.newPage open the context and the page
CheckUrl(c, url) ==
    /\ checks[c].pc = "url"
    /\ IF ~HttpScheme(url)
       THEN /\ checks' = [Throws(c, InvalidProtocol) EXCEPT ![c].url = url]
            /\ UNCHANGED chrome
       ELSE /\ checks' = [checks EXCEPT ![c].pc = "goto", ![c].url = url, ![c].ctx = TRUE]
            /\ chrome' = [chrome EXCEPT !.contexts = @ + 1]
    /\ UNCHANGED <<Queue, browser, conf>>

\* ---- page.goto(testUrl, ...) resolves with a response, or rejects
Goto(c, outcome) ==
    /\ checks[c].pc = "goto"
    /\ LET gone == [checks EXCEPT ![c].nav = [url |-> testUrl] @@ GotoOptions]
       IN  checks' = IF outcome = 0
                     THEN [gone EXCEPT ![c].pc = "ended", ![c].res = Failure(GotoThrew)]
                     ELSE [gone EXCEPT ![c].pc = "shot", ![c].status = outcome]
    /\ UNCHANGED <<Queue, browser, conf, chrome>>

\* ---- after the wait of 5 s, with no test command played: page.screenshot
\* writes the file, or rejects
Screenshot(c, ok) ==
    /\ checks[c].pc = "shot"
    /\ IF ok
       THEN /\ checks' = [checks EXCEPT ![c].pc = "video", ![c].shot = "written",
                                        ![c].played = CommandsPlayed(checks[c].mon)]
            /\ chrome' = [chrome EXCEPT !.artifacts = @ \cup {screenshotPath(checks[c].mon)}]
       ELSE /\ checks' = [checks EXCEPT ![c].pc = "ended", ![c].shot = "failed",
                                        ![c].res = Failure(ScreenshotThrew)]
            /\ UNCHANGED chrome
    /\ UNCHANGED <<Queue, browser, conf>>

\* ---- the page is closed and the video saved, inside a try whose catch
\* logs; then context.close()
SaveVideo(c, ok) ==
    /\ checks[c].pc = "video"
    /\ checks' = [checks EXCEPT ![c].pc = "result", ![c].ctx = FALSE,
                                ![c].video = IF ok THEN "written" ELSE "failed"]
    /\ chrome' = [chrome EXCEPT !.contexts = @ - 1,
                                !.artifacts = IF ok THEN @ \cup {videoPath(checks[c].mon)} ELSE @]
    /\ UNCHANGED <<Queue, browser, conf>>

\* ---- the heartbeat is filled from the response, or its status is thrown
Result(c) ==
    /\ checks[c].pc = "result"
    /\ checks' = [checks EXCEPT ![c].pc = "ended", ![c].res = DeriveResult(checks[c].status)]
    /\ UNCHANGED <<Queue, browser, conf, chrome>>

\* ---- the caller has the result; the slot is free for the next check
CheckReturns(c) ==
    /\ checks[c].pc = "ended"
    /\ checks' = [checks EXCEPT ![c] = NoCheck]
    /\ UNCHANGED <<Queue, browser, conf, chrome>>

\* ---- the cached browser goes away while no check runs (the process
\* exits, the remote end hangs up); its contexts go with it
Disconnected ==
    /\ browser /\ chrome.connected
    /\ Running = {}
    /\ chrome' = [chrome EXCEPT !.connected = FALSE,
                                !.procs = IF chrome.remote THEN @ ELSE @ - 1,
                                !.contexts = 0]
    /\ UNCHANGED <<Queue, browser, conf, checks>>

\* ---- testChrome(executablePath) of the settings page: the path is
\* prepared, a browser is launched with it and closed
TestChrome(executablePath, found) ==
    /\ LET p == prepareChromeExecutable(conf, executablePath, found)
       IN  chrome' = IF p.raised THEN chrome
                     ELSE [chrome EXCEPT !.launched = p.path]
    /\ chrome' # chrome
    /\ UNCHANGED <<Queue, browser, conf, checks>>

\* The steps of the check in slot c.
CheckSteps(c) ==
    \/ \E m \in Monitors : CheckBegins(c, m)
    \/ \E found \in FoundSamples : GetBrowser(c, found)
    \/ LaunchReturns(c)
    \/ \E ok \in BOOLEAN : GetRemoteBrowser(c, ok)
    \/ \E url \in UrlSamples : CheckUrl(c, url)
    \/ \E outcome \in GotoOutcomes : Goto(c, outcome)
    \/ \E ok \in BOOLEAN : Screenshot(c, ok)
    \/ \E ok \in BOOLEAN : SaveVideo(c, ok)
    \/ Result(c)
    \/ CheckReturns(c)


\* ------------------------------------------------------- specifications

Calls ==
    \/ \E ok \in BOOLEAN : Initialize(ok)
    \/ \E ok \in BOOLEAN : StartAllMonitors(ok)
    \/ \E m \in Monitors : StartMonitor(m)
    \/ \E m \in Monitors : StopMonitor(m)
    \/ \E ok \in BOOLEAN : GetStats(ok)
    \/ \E ok \in BOOLEAN : HealthCheck(ok)
    \/ Shutdown
    \/ \E m \in Monitors : SetActive(m)

\* The steps of the worker on the jobs of monitor m.
WorkerStep(m) ==
    \E r \in JobSet :
        /\ r.mon = m
        /\ (Promote(r) \/ Dequeue(r) \/ CheckCompleted(r) \/ CheckThrows(r))

WorkerSteps == \E m \in Monitors : WorkerStep(m)

QueueStartSteps == ObliterateQueue \/ AddBulkJobs

TimerSteps ==
    \/ \E m \in Monitors : TimerFires(m) \/ BeatEnds(m)
    \/ \E i \in BagToSet(loose) : LooseTimerFires(i) \/ LooseBeatEnds(i)

Faults == StartAllRaises \/ (\E r \in JobSet : ScheduleThrows(r))

Next ==
    \/ Calls
    \/ StartNextTraditional
    \/ QueueStartSteps
    \/ WorkerSteps
    \/ ShutdownEnds
    \/ TimerSteps
    \/ Faults
    \/ Tick

\* The whole system: both substrates, every call, every fault.
Spec == Init /\ [][Next]_vars

\* ---- distributed mode: the facade after initialize() has constructed the
\* QueueManager, which is the state of every later call (isQueueMode and
\* queueManager never change again), and what runs in that mode.
QueueInit ==
    /\ active = [m \in Monitors |-> TRUE]
    /\ isQueueMode = TRUE
    /\ isInitialized = TRUE
    /\ queueManager = TRUE
    /\ ctorCalls = 1
    /\ ctorFailed = FALSE
    /\ jobs = EmptyBag
    /\ sa = Idle
    /\ monitorList = [m \in Monitors |-> "none"]
    /\ loose = EmptyBag
    /\ watch = [m \in Monitors |-> "off"]
    /\ env = NoEnv
    /\ worker = NewWorker(NoEnv)
    /\ browser = FALSE
    /\ conf = DefaultConf
    /\ chrome = NoChrome
    /\ checks = [c \in 1..MaxChecks |-> NoCheck]
    /\ started = 0
    /\ calls = 1
    /\ last = Last("initialize", 0, FALSE, {}, FALSE, "queue")

QueueCalls ==
    \/ StartAllMonitors(TRUE)
    \/ \E m \in Monitors : StartMonitor(m)
    \/ \E m \in Monitors : StopMonitor(m)
    \/ Shutdown
    \/ \E m \in Monitors : SetActive(m)

QueueNext ==
    \/ QueueCalls
    \/ QueueStartSteps
    \/ WorkerSteps
    \/ ShutdownEnds
    \/ StartAllRaises
    \/ Tick

QueueSpec == QueueInit /\ [][QueueNext]_vars

\* ---- distributed mode with a broker whose queue.add may reject: monitors
\* are started one at a time, the worker runs their jobs, and the add of
\* scheduleNextCheck may fail after a check
RetryNext ==
    \/ \E m \in Monitors : StartMonitor(m)
    \/ WorkerSteps
    \/ \E r \in JobSet : ScheduleThrows(r)
    \/ Tick

RetrySpec == QueueInit /\ [][RetryNext]_vars

\* ---- the runs in which no QueueManager is ever constructed (queue mode
\* configured off, or the broker out of reach whenever the constructor
\* runs): the jobs stay empty and only the local timers schedule.
LocalCalls ==
    \/ Initialize(FALSE)
    \/ StartAllMonitors(FALSE)
    \/ \E m \in Monitors : StartMonitor(m)
    \/ \E m \in Monitors : StopMonitor(m)
    \/ GetStats(FALSE)
    \/ HealthCheck(FALSE)
    \/ Shutdown
    \/ \E m \in Monitors : SetActive(m)

LocalNext == LocalCalls \/ StartNextTraditional \/ TimerSteps

LocalSpec == Init /\ [][LocalNext]_vars

\* ---- distributed mode as the server runs it when left alone: one
\* startAllMonitors() at start-up, then a worker whose checks may throw, and
\* the clock; no monitor is stopped or deactivated and no broker call fails.
\* BullMQ promotes every delayed job and hands every waiting job to the
\* worker, every check ends, the call in progress goes on, and time passes.
StartUp == calls = 1 /\ StartAllMonitors(TRUE)

FairNext == StartUp \/ QueueStartSteps \/ WorkerSteps \/ Tick

FairSpec ==
    /\ QueueInit
    /\ [][FairNext]_vars
    /\ WF_vars(QueueStartSteps)
    /\ \A m \in Monitors : WF_vars(WorkerStep(m))
    /\ WF_vars(Tick)

\* ---- the browser checks of a server in distributed mode: up to MaxChecks
\* run at once, on the default settings
BrowserNext ==
    \/ \E c \in 1..MaxChecks : CheckSteps(c)
    \/ Disconnected

BrowserSpec == QueueInit /\ [][BrowserNext]_vars

\* ---- the browser executable under every setting: one check at a time, of
\* a monitor whose page loads and whose artifacts are written, and the test
\* of the settings page
ChromeInit ==
    /\ active = [m \in Monitors |-> TRUE]
    /\ isQueueMode = TRUE
    /\ isInitialized = TRUE
    /\ queueManager = TRUE
    /\ ctorCalls = 1
    /\ ctorFailed = FALSE
    /\ jobs = EmptyBag
    /\ sa = Idle
    /\ monitorList = [m \in Monitors |-> "none"]
    /\ loose = EmptyBag
    /\ watch = [m \in Monitors |-> "off"]
    /\ env = NoEnv
    /\ worker = NewWorker(NoEnv)
    /\ browser = FALSE
    /\ conf \in Confs
    /\ chrome = NoChrome
    /\ checks = [c \in 1..MaxChecks |-> NoCheck]
    /\ started = 0
    /\ calls = 1
    /\ last = Last("initialize", 0, FALSE, {}, FALSE, "queue")

ChromeNext ==
    \/ \E m \in Monitors : CheckBegins(1, m)
    \/ \E found \in FoundSamples : GetBrowser(1, found)
    \/ LaunchReturns(1)
    \/ GetRemoteBrowser(1, TRUE)
    \/ \E url \in UrlSamples : CheckUrl(1, url)
    \/ Goto(1, 200)
    \/ Screenshot(1, TRUE)
    \/ SaveVideo(1, TRUE)
    \/ Result(1)
    \/ CheckReturns(1)
    \/ Disconnected
    \/ \E executablePath \in ExeSamples, found \in FoundSamples : TestChrome(executablePath, found)

ChromeSpec == ChromeInit /\ [][ChromeNext]_vars

\* ---- the worker as the environment configures it: queue mode is on, the
\* two settings are drawn from the strings above, the QueueManager is
\* constructed from them, and jobs are added one monitor at a time.
MaxJobsSettings == {<<>>, <<"1">>}

EnvInit ==
    /\ active = [m \in Monitors |-> TRUE]
    /\ isQueueMode = TRUE
    /\ isInitialized = FALSE
    /\ queueManager = FALSE
    /\ ctorCalls = 0
    /\ ctorFailed = FALSE
    /\ jobs = EmptyBag
    /\ sa = Idle
    /\ monitorList = [m \in Monitors |-> "none"]
    /\ loose = EmptyBag
    /\ watch = [m \in Monitors |-> "off"]
    /\ env \in [QUEUE_CONCURRENCY : EnvStrings, QUEUE_MAX_JOBS : MaxJobsSettings]
    /\ worker = NoWorker
    /\ browser = FALSE
    /\ conf = DefaultConf
    /\ chrome = NoChrome
    /\ checks = [c \in 1..MaxChecks |-> NoCheck]
    /\ started = 0
    /\ calls = 0
    /\ last = Last("init", 0, FALSE, {}, FALSE, "")

EnvNext ==
    \/ Initialize(TRUE)
    \/ \E m \in Monitors : UseQueue /\ StartMonitor(m)
    \/ WorkerSteps
    \/ WindowEnds
    \/ Tick

EnvSpec == EnvInit /\ [][EnvNext]_vars

\* ------------------------------------------------------------------ claims

Outstanding(m) == SumCopies(jobs, {r \in BagToSet(jobs) : r.mon = m /\ IsOutstanding(r)})
Pending(q, m) == SumCopies(q, {r \in BagToSet(q) : r.mon = m /\ IsPending(r)})
Checking(m) == \E r \in JobSet : r.mon = m /\ IsProcessing(r)

\* Checks of monitor m in progress, on either substrate.
ChecksInProgress(m) ==
    SumCopies(jobs, {r \in BagToSet(jobs) : r.mon = m /\ IsProcessing(r)})
    + (IF monitorList[m] = "running" THEN 1 ELSE 0)
    + SumCopies(loose, {i \in BagToSet(loose) : i.mon = m /\ i.st \in {"running", "stopping"}})

\* Monitor m has a timer pending or a check that will set one.
HasTimer(m) ==
    \/ monitorList[m] \in {"scheduled", "running"}
    \/ \E i \in BagToSet(loose) : i.mon = m /\ i.st \in {"scheduled", "running"}

\* C1: in distributed mode every monitor has at most one job that is
\* waiting, delayed or active, whatever the calls and worker steps so far.
C1_AtMostOneOutstandingJob == \A m \in Monitors : Outstanding(m) <= 1

\* C2: on either substrate the checks of a monitor are strictly sequential:
\* at no time are two checks of the same monitor in progress.
C2_ChecksAreSequential == \A m \in Monitors : ChecksInProgress(m) <= 1

\* C3: the step in which a job's last attempt throws (retries exhausted)
\* enqueues exactly one new job for that monitor, delayed by its interval.
IntervalJobs(q, m) ==
    SumCopies(q, {r \in BagToSet(q) : r.mon = m /\ r.st = "delayed" /\ r.att = 0 /\ r.delay = NextDelay(m)})

C3_ExhaustedRetriesReschedule ==
    [][(last'.op = "exhausted" /\ last'.res = "beat")
         => IntervalJobs(jobs', last'.mon) = IntervalJobs(jobs, last'.mon) + 1]_vars

\* C4: a monitor that was started while active, and is neither stopped nor
\* deactivated, is checked again and again: whenever it is in that state, a
\* check of it is in progress at some later time.
C4_CheckedForever ==
    \A m \in Monitors : (watch[m] = "live") ~> (watch[m] # "live" \/ Checking(m))

\* C5: when the check of a monitor whose stopMonitor has completed in the
\* meantime finishes, no job of that monitor is waiting or delayed.
C5_NoJobAfterStoppedCheck ==
    (last.op = "completed" /\ watch[last.mon] = "stopped") => Pending(jobs, last.mon) = 0

\* C6: when startAllMonitors() completes in distributed mode (no other facade
\* call in between, the rows unchanged), the queue holds exactly one job per
\* active monitor, each with a delay in [0, 10000), and nothing else.
C6_StartAllLeavesOneJitteredJobEach ==
    (last.op = "startAllDone" /\ last.res = "queue" /\ ~last.raised /\ ~last.flag
       /\ last.set = ActiveSet)
    => /\ \A m \in ActiveSet :
            /\ Outstanding(m) = 1
            /\ \A r \in JobSet :
                   (r.mon = m /\ IsOutstanding(r)) => (r.delay >= 0 /\ r.delay < JitterWindow)
       /\ SumCopies(jobs, {r \in BagToSet(jobs) : IsOutstanding(r)}) = Cardinality(ActiveSet)

C8_TraditionalModeIsFinal ==
    [][~isQueueMode
         => /\ ~isQueueMode'
            /\ (IF isQueueMode' /\ queueManager' THEN "queue" ELSE "traditional") = "traditional"
            /\ ctorCalls' = ctorCalls]_vars

\* After a failed construction, initialize() has been called again and
\* healthCheck() answers "disabled".
C8_Witness ==
    /\ ctorFailed
    /\ ~isQueueMode
    /\ ctorCalls = 1
    /\ calls = 3
    /\ last.op = "healthCheck"
    /\ last.res = "disabled"

\* C9: in traditional mode, when stopMonitor(id) has returned, the monitor
\* has no pending timer and no check that will set one.
C9_StopCancelsTheTimer ==
    (last.op = "stopMonitor" /\ last.res = "traditional") => ~HasTimer(last.mon)

\* C10: in distributed mode stopMonitor(id) removes every waiting or delayed
\* job of monitor id and changes no other job: the jobs of the other monitors
\* and the active jobs are the same before and after.
C10_StopRemovesOnlyPendingJobsOfId ==
    [][(last'.op = "stopMonitor" /\ last'.res = "queue")
         => /\ BagToSet(jobs') \subseteq BagToSet(jobs)
            /\ \A r \in BagToSet(jobs) :
                   CopiesIn(r, jobs') =
                       IF r.mon = last'.mon /\ r.st \in {"waiting", "delayed"}
                       THEN 0 ELSE CopiesIn(r, jobs)]_vars

\* stopMonitor(id) has removed a pending job of id while the other monitor
\* has a job waiting or delayed, which is still in the queue.
C10_Witness ==
    /\ last.op = "stopMonitor"
    /\ last.res = "queue"
    /\ last.flag
    /\ \E r \in JobSet : r.mon # last.mon /\ IsPending(r)

\* C11: two stopMonitor(id) calls in a row, in either mode, started or not:
\* the second raises no error and changes nothing, and the monitor is left
\* with no waiting or delayed job and no timer.
C11_StopTwiceIsIdempotent ==
    [][(last.op = "stopMonitor" /\ last'.op = "stopMonitor" /\ last'.mon = last.mon)
         => /\ ~last'.raised
            /\ <<jobs', monitorList', loose'>> = <<jobs, monitorList, loose>>
            /\ Pending(jobs', last.mon) = 0
            /\ \A i \in BagToSet(loose') :
                   ~(i.mon = last.mon /\ i.st \in {"scheduled", "running"})
            /\ monitorList'[last.mon] \notin {"scheduled", "running"}]_vars

\* C12: in distributed mode startMonitor(id) adds exactly one job, of monitor
\* id, waiting with delay 0, and leaves every other job as it was.
C12_StartAddsOneImmediateJob ==
    [][(last'.op = "startMonitor" /\ last'.res = "queue")
         => \E r \in BagToSet(jobs') :
                /\ r.mon = last'.mon
                /\ r.delay = 0
                /\ r.st = "waiting"
                /\ r.att = 0
                /\ jobs' = jobs (+) One(r)]_vars

\* startMonitor(id) has added its job to a queue that holds a waiting or
\* delayed job of the other monitor.
C12_Witness ==
    /\ last.op = "startMonitor"
    /\ last.res = "queue"
    /\ \E r \in JobSet : r.mon = last.mon /\ r.st = "waiting" /\ r.delay = 0
    /\ \E r \in JobSet : r.mon # last.mon /\ IsPending(r)

\* C13: startMonitor(id) called twice in a row leaves the scheduling state the
\* first call left: the second call adds no job and starts no timer.
C13_StartTwiceIsIdempotent ==
    [][(last.op = "startMonitor" /\ last'.op = "startMonitor" /\ last'.mon = last.mon)
         => <<jobs', monitorList', loose'>> = <<jobs, monitorList, loose>>]_vars

\* C14: a job the worker takes while its monitor is inactive ends as skipped
\* without error: the job leaves the queue, nothing is enqueued and nothing
\* is retried; and no check of an inactive monitor ever starts.
C14_InactiveMonitorIsSkipped ==
    [][/\ last'.op = "skipped"
            => /\ ~last'.raised
               /\ ~active[last'.mon]
               /\ \E r \in JobSet :
                      r.mon = last'.mon /\ r.st = "waiting" /\ jobs' = jobs (-) One(r)
       /\ \A m \in Monitors :
            ~active[m] =>
                SumCopies(jobs', {r \in BagToSet(jobs') : r.mon = m /\ IsProcessing(r)})
                  <= SumCopies(jobs, {r \in BagToSet(jobs) : r.mon = m /\ IsProcessing(r)})]_vars

\* The worker has skipped the job of a deactivated monitor while a job of
\* the other monitor is in the queue.
C14_Witness ==
    /\ last.op = "skipped"
    /\ ~active[last.mon]
    /\ \E r \in JobSet : r.mon # last.mon

\* C15: the step in which the check of an active monitor completes without an
\* exception enqueues exactly one new job of that monitor, delayed by the
\* monitor's interval from then on.
C15_CompletedCheckSchedulesNext ==
    [][(last'.op = "completed" /\ active[last'.mon])
         => /\ IntervalJobs(jobs', last'.mon) = IntervalJobs(jobs, last'.mon) + 1
            /\ \E r \in BagToSet(jobs') :
                   r.mon = last'.mon /\ r.fresh /\ r.delay = NextDelay(r.mon)]_vars

\* C16: no job is executed more than 3 times: the attempts a job has behind
\* it, plus the one in progress, never exceed 3.
C16_AtMostThreeExecutions ==
    \A r \in JobSet : r.att + (IF IsProcessing(r) THEN 1 ELSE 0) <= 3

\* A job is being executed for the third time.
C16_Witness == \E r \in JobSet : r.att = 2 /\ r.st = "active"

\* C17: the jobs the worker is executing never exceed the concurrency
\* ceiling, and that ceiling is QUEUE_CONCURRENCY when the setting is a
\* positive integer and 50 otherwise.
C17_ConcurrencyCeiling ==
    LET s == env.QUEUE_CONCURRENCY
        positiveInteger ==
            s # <<>> /\ (\A i \in 1..Len(s) : s[i] \in Digits) /\ Decimal(s) > 0
        ceiling == IF positiveInteger THEN Decimal(s) ELSE 50
    IN queueManager => (Processing <= ceiling /\ worker.concurrency = ceiling)

\* C18: the jobs started in one limiter window never exceed the configured
\* rate limit: QUEUE_MAX_JOBS when it is given, 1000 otherwise.
C18_RateLimitIsConfigured ==
    LET s == env.QUEUE_MAX_JOBS
        limit == IF s # <<>> THEN Decimal(s) ELSE 1000
    IN started <= limit

\* C19: healthCheck() answers "disabled" exactly when isQueueMode is off,
\* "unhealthy" exactly when it is on and the broker cannot be queried, and
\* "healthy" otherwise, before initialize() as well as after.
C19_HealthStatus ==
    last.op = "healthCheck"
    => last.res = (IF ~isQueueMode THEN "disabled"
                   ELSE IF last.flag THEN "unhealthy" ELSE "healthy")

\* C20: when shutdown() has completed, the worker and the queue of a
\* constructed QueueManager are closed and no shared browser is running.
C20_ShutdownReleasesEverything ==
    last.op = "shutdownDone"
    => /\ queueManager => worker.phase = "closed"
       /\ ~browser

\* C21: a browser check of a monitor whose URL is neither http nor https
\* holds no browser (launched, fetched or remote) and no open context.
C21_BadSchemeAcquiresNothing ==
    \A c \in 1..MaxChecks :
        (checks[c].url # "" /\ Protocol(checks[c].url) \notin {"http:", "https:"})
            => (checks[c].handle = "none" /\ ~checks[c].ctx)

\* C22: a check that has returned or thrown has closed its context, and no
\* context is open while no check runs.
C22_ContextsAreClosed ==
    /\ \A c \in 1..MaxChecks : checks[c].pc = "ended" => ~checks[c].ctx
    /\ (\A c \in 1..MaxChecks : checks[c].pc \in {"idle", "ended"}) => chrome.contexts = 0

\* C23: at most one locally launched browser process is alive, and no check
\* is launching one while a connected local browser is cached.
C23_OneSharedBrowser ==
    /\ chrome.procs <= 1
    /\ \A c \in 1..MaxChecks :
          checks[c].pc = "launch" => ~(browser /\ chrome.connected /\ ~chrome.remote)

\* C24: a check that got a navigation response ends up, with the status as
\* message and the response end as ping, exactly when the status is in
\* [200, 400), and else fails with the status as diagnostic; a check whose
\* navigation threw fails with the error message.
C24_ResultFollowsTheResponse ==
    \A c \in 1..MaxChecks :
        LET k == checks[c]
        IN  (k.pc = "ended" /\ k.nav # NoGoto) =>
                IF k.status = 0
                THEN ~k.res.up /\ k.res.text = GotoThrew
                ELSE IF k.status >= 200 /\ k.status < 400
                THEN k.res.up /\ k.res.code = k.status /\ k.res.ping = "responseEnd"
                ELSE ~k.res.up /\ k.res.text = StatusText(k.status)

\* C25: the page navigates to the monitor's URL, with a timeout of 30 s and
\* the network-idle condition.
C25_NavigatesToTheMonitorUrl ==
    \A c \in 1..MaxChecks :
        checks[c].nav # NoGoto =>
            /\ checks[c].nav.url = checks[c].url
            /\ checks[c].nav.timeout = 30000
            /\ checks[c].nav.waitUntil = "networkidle"

\* C26: checks of different monitors have different artifact file names, and
\* a check of a monitor writes no file that an earlier run of that monitor
\* has written.
C26_ArtifactNamesNeverCollide ==
    LET named == {c \in 1..MaxChecks : checks[c].pc \in {"goto", "shot", "video", "result"}}
        alone(c) == \A d \in named \ {c} : checks[d].mon # checks[c].mon
    IN  /\ \A c, d \in named :
              checks[c].mon # checks[d].mon =>
                  /\ screenshotPath(checks[c].mon) # screenshotPath(checks[d].mon)
                  /\ videoPath(checks[c].mon) # videoPath(checks[d].mon)
        /\ \A c \in named :
              (alone(c) /\ checks[c].pc \in {"goto", "shot"}) =>
                  /\ screenshotPath(checks[c].mon) \notin chrome.artifacts
                  /\ videoPath(checks[c].mon) \notin chrome.artifacts

\* C27: a check whose screenshot or video could not be written ends with the
\* result its navigation response gives.
C27_ArtifactFailureKeepsTheResult ==
    \A c \in 1..MaxChecks :
        (checks[c].pc = "ended" /\ checks[c].status # 0
            /\ (checks[c].shot = "failed" \/ checks[c].video = "failed"))
            => checks[c].res = DeriveResult(checks[c].status)

\* C28: a browser is launched with a configured path only if the path is on
\* the allow-list or the override is set; under a setting that is neither,
\* the check fails with the error of prepareChromeExecutable and no browser
\* is launched.
C28_OnlyAllowedExecutables ==
    LET override == conf.allowArg \/ conf.allowEnv = "1"
        refused == conf.exe \notin AllowedList \cup {"", "#playwright_chromium", "#PLAYWRIGHT_CHROMIUM"}
                      /\ ~override
    IN  /\ chrome.launched \in AllowedList \cup {"", Bundled} \/ override
        /\ refused =>
              /\ chrome.procs = 0
              /\ \A c \in 1..MaxChecks :
                    /\ checks[c].pc # "launch"
                    /\ checks[c].handle # "local"
                    /\ (checks[c].pc = "ended" /\ checks[c].handle = "none")
                          => checks[c].res = Failure(NotAllowed)

\* C28: a check under a refused setting has failed with that error.
C28_Witness ==
    /\ conf.exe = "/opt/chrome/chrome" /\ ~conf.allowArg /\ conf.allowEnv # "1"
    /\ checks[1].pc = "ended" /\ checks[1].res = Failure(NotAllowed)

\* C29: a check that has gone through its page has played the test commands
\* of its monitor, each once and in order.
C29_TestCommandsArePlayed ==
    \A c \in 1..MaxChecks :
        checks[c].pc \in {"video", "result", "ended"} /\ checks[c].shot = "written"
            => checks[c].played = TestCommands[checks[c].mon]

\* C30: a job produces a check result at most once: executeMonitorBeat never
\* returns in an attempt of a job in which it has returned before, also when
\* scheduleNextCheck failed after it.
C30_OneResultPerJob ==
    ~(last.op \in {"completed", "failed", "exhausted"} /\ last.res \in {"queue", "add"}
        /\ last.flag)

\* C31: while the queue holds a job of a monitor that was enqueued in the
\* current millisecond, no step (startAllMonitors, the reschedule after a
\* check, startMonitor) adds another job of that monitor.
C31_SameInstantEnqueuesCollapse ==
    [][\A m \in Monitors :
          LET new(q) == SumCopies(q, {r \in BagToSet(q) :
                                        r.mon = m /\ r.att = 0 /\ r.st \in {"waiting", "delayed"}})
              enqueuedNow == \E r \in JobSet : r.mon = m /\ r.named /\ r.fresh /\ r.st # "orphan"
          IN  enqueuedNow => new(jobs') <= new(jobs)]_vars

\* C32: a check of a monitor without remote_browser holds the locally
\* launched browser, never a remote connection.
C32_LocalChecksRunLocally ==
    \A c \in 1..MaxChecks :
        (~checks[c].remote /\ checks[c].handle # "none") => checks[c].handle = "local"

\* C33: no monitor has both a running local timer and an outstanding queue
\* job, whatever the order of the facade calls.
C33_OneSubstratePerMonitor ==
    \A m \in Monitors :
        ~((\/ monitorList[m] \in {"scheduled", "running"}
           \/ \E i \in BagToSet(loose) : i.mon = m /\ i.st \in {"scheduled", "running"})
          /\ \E r \in JobSet : r.mon = m /\ r.st \in {"waiting", "delayed", "active"})

====
